---- MODULE Spec2Model ----
(***************************************************************************)
(* static-path: path objects built from route patterns (src/src/index.ts).  *)
(*                                                                          *)
(* A JavaScript string is a sequence of one-character strings, so that      *)
(* split, startsWith and the two regular-expression replacements work on    *)
(* characters as the code does.  A thrown Error is a record holding the     *)
(* interpolated parts of its message.                                       *)
(***************************************************************************)
EXTENDS Integers, Sequences, FiniteSets, TLC

VARIABLES pc, obj, origin, ret

vars == <<pc, obj, origin, ret>>

(***************************************************************************)
(* Bounds and input alphabets                                               *)
(***************************************************************************)

\* a pattern handed to path() or reached by .path() has at most this many
\* '/'-delimited segments
MaxSegments == 4

\* U+000A, one of the line terminators the regular expression '.' skips
LF == "\n"

LineTerminators == {LF}

\* the segment texts patterns are assembled from: empty, a literal, two
\* parameters, and a literal holding a line terminator
Segments == { <<>>, <<"a">>, <<":", "a">>, <<":", "b">>, <<LF>> }

\* the keys a params object may carry
Keys == { <<"a">>, <<"b">> }

\* the values a params object may carry: the empty string, a plain string, a
\* string holding a separator, and one value that is not a string
StringValues == { <<>>, <<"x">>, <<"/">> }

str(s) == [type |-> "string", s |-> s]

NotAString == [type |-> "number", s |-> <<>>]

undefined == [type |-> "undefined", s |-> <<>>]

Values == { str(s) : s \in StringValues } \cup { NotAString }

\* every params object over Keys: a function from the keys it has to values
ParamObjects == UNION { [ks -> Values] : ks \in SUBSET Keys }

(***************************************************************************)
(* String primitives of the JavaScript runtime                              *)
(***************************************************************************)

startsWith(s, c) == Len(s) >= 1 /\ s[1] = c

endsWith(s, c) == Len(s) >= 1 /\ s[Len(s)] = c

\* the index of the first c in s, 0 when there is none
IndexOf(s, c) ==
  IF \E i \in 1..Len(s) : s[i] = c
  THEN CHOOSE i \in 1..Len(s) : s[i] = c /\ \A j \in 1..(i - 1) : s[j] # c
  ELSE 0

RECURSIVE split(_, _)
\* String.prototype.split(c): the texts between the occurrences of c
split(s, c) ==
  LET i == IndexOf(s, c)
  IN  IF i = 0 THEN << s >>
      ELSE << SubSeq(s, 1, i - 1) >> \o split(SubSeq(s, i + 1, Len(s)), c)

RECURSIVE join(_, _)
\* Array.prototype.join(c)
join(ss, c) ==
  IF Len(ss) = 0 THEN <<>>
  ELSE IF Len(ss) = 1 THEN ss[1]
  ELSE ss[1] \o << c >> \o join(Tail(ss), c)

\* JSON.stringify of a string over the alphabet: quoted, a line feed escaped
JSONstring(s) ==
  LET esc(c) == IF c = LF THEN << "\\", "n" >> ELSE << c >>
      RECURSIVE body(_)
      body(t) == IF t = <<>> THEN <<>> ELSE esc(Head(t)) \o body(Tail(t))
  IN  << "\"" >> \o body(s) \o << "\"" >>

\* JSON.stringify of a params value
JSONvalue(v) == IF v.type = "string" THEN JSONstring(v.s) ELSE << "7" >>

\* JSON.stringify of a params object: its members, each key and value
\* stringified (the member order of the text is left out)
JSONobject(params) ==
  { << JSONstring(k), JSONvalue(params[k]) >> : k \in DOMAIN params }

(***************************************************************************)
(* normalizePattern, index.ts 124-140                                       *)
(***************************************************************************)

\* .replace(/\/+/g, '/'): every run of '/' becomes one '/'
ReplaceSlashRuns(s) ==
  LET keep == { i \in 1..Len(s) : ~(s[i] = "/" /\ i > 1 /\ s[i - 1] = "/") }
      RECURSIVE pick(_)
      pick(i) == IF i > Len(s) THEN <<>>
                 ELSE (IF i \in keep THEN << s[i] >> ELSE <<>>) \o pick(i + 1)
  IN  pick(1)

\* /^(.+).$/ in place of /^(.+)\/$/: the last character goes, whatever it is
ReplaceTrailingSlash_AnyLastChar(s) ==
  IF /\ Len(s) >= 2
     /\ \A i \in 1..Len(s) : s[i] \notin LineTerminators
  THEN SubSeq(s, 1, Len(s) - 1)
  ELSE s

\* .replace(/^(.+)\/$/, '$1'): the expression matches when the text ends
\* with '/' and everything before that '/' is one or more characters that
\* '.' accepts, which excludes line terminators
ReplaceTrailingSlash(s) ==
  IF /\ Len(s) >= 2
     /\ s[Len(s)] = "/"
     /\ \A i \in 1..(Len(s) - 1) : s[i] \notin LineTerminators
  THEN SubSeq(s, 1, Len(s) - 1)
  ELSE s

\* the two replacements in the other order
normalizePattern_TrailingFirst(pattern) ==
  IF pattern = << "/" >> THEN pattern
  ELSE ReplaceSlashRuns(ReplaceTrailingSlash(pattern))

normalizePattern(pattern) ==
  IF pattern = << "/" >> THEN pattern
  ELSE ReplaceTrailingSlash(ReplaceSlashRuns(pattern))

(***************************************************************************)
(* patternParts, index.ts 91-99                                             *)
(***************************************************************************)

constant(value) == [kind |-> "constant", value |-> value]

param(paramName) == [kind |-> "param", paramName |-> paramName]

patternParts(pattern) ==
  LET raw == split(pattern, "/")
  IN  [ i \in 1..Len(raw) |->
          IF startsWith(raw[i], ":") THEN param(Tail(raw[i]))
          ELSE constant(raw[i]) ]

(***************************************************************************)
(* paramValue and the call, index.ts 53-67 and 142-154                      *)
(***************************************************************************)

return(value) == [kind |-> "return", value |-> value]

throw(error) == [kind |-> "throw", error |-> error]

\* params[paramName]
Lookup(params, paramName) ==
  IF paramName \in DOMAIN params THEN params[paramName] ELSE undefined

\* throws only when the key is absent
paramValue_OnlyMissing(params, paramName) ==
  LET value == Lookup(params, paramName)
  IN  IF value.type = "undefined"
      THEN throw([message |-> "path param didn't exist on params object",
                  paramName |-> JSONstring(paramName),
                  params |-> JSONobject(params)])
      ELSE return(value.s)

paramValue(params, paramName) ==
  LET value == Lookup(params, paramName)
  IN  IF value.type # "string"
      THEN throw([message |-> "path param didn't exist on params object",
                  paramName |-> JSONstring(paramName),
                  params |-> JSONobject(params)])
      ELSE return(value.s)

\* also throws on a key that names no parameter
paramsToPath_RejectsExtraKeys(parts, params) ==
  LET names == { parts[i].paramName :
                   i \in { j \in 1..Len(parts) : parts[j].kind = "param" } }
      out == [ i \in 1..Len(parts) |->
                 IF parts[i].kind = "param"
                 THEN paramValue(params, parts[i].paramName)
                 ELSE return(parts[i].value) ]
      thrown == { i \in 1..Len(parts) : out[i].kind = "throw" }
      texts == [ i \in 1..Len(parts) |-> out[i].value ]
  IN  IF thrown # {}
      THEN out[CHOOSE i \in thrown : \A j \in thrown : i <= j]
      ELSE IF DOMAIN params \ names # {}
      THEN LET extra == CHOOSE k \in DOMAIN params \ names : TRUE
           IN  throw([message |-> "path param didn't exist on params object",
                      paramName |-> JSONstring(extra),
                      params |-> JSONobject(params)])
      ELSE return(<< "/" >> \o join(SelectSeq(texts, LAMBDA v : v # <<>>), "/"))

\* the body of paramsToPath: map every part to its text (the first throw of
\* paramValue ends the call), drop the empty texts, join with '/'
paramsToPath(parts, params) ==
  LET out == [ i \in 1..Len(parts) |->
                 IF parts[i].kind = "param"
                 THEN paramValue(params, parts[i].paramName)
                 ELSE return(parts[i].value) ]
      thrown == { i \in 1..Len(parts) : out[i].kind = "throw" }
      texts == [ i \in 1..Len(parts) |-> out[i].value ]
  IN  IF thrown # {}
      THEN out[CHOOSE i \in thrown : \A j \in thrown : i <= j]
      ELSE return(<< "/" >> \o join(SelectSeq(texts, LAMBDA v : v # <<>>), "/"))

(***************************************************************************)
(* path, index.ts 50-88                                                     *)
(***************************************************************************)

\* the path object: the pattern argument its closures hold, and its pattern
\* and parts properties
PathObject(pattern, normalized, parts) ==
  [arg |-> pattern, pattern |-> normalized, parts |-> parts]

\* the error quotes the argument instead of the normalized pattern
path_QuotesArgument(pattern) ==
  LET parts == patternParts(pattern)
      normalized == normalizePattern(pattern)
  IN  IF ~startsWith(normalized, "/")
      THEN throw([message |-> "Paths must begin with slashes",
                  pattern |-> JSONstring(pattern)])
      ELSE return(PathObject(pattern, normalized, parts))

path(pattern) ==
  LET parts == patternParts(pattern)
      normalized == normalizePattern(pattern)
  IN  IF ~startsWith(normalized, "/")
      THEN throw([message |-> "Paths must begin with slashes",
                  pattern |-> JSONstring(normalized)])
      ELSE return(PathObject(pattern, normalized, parts))

\* the template literal without its '/'
subpath_NoSeparator(p, subpattern) == path(p.arg \o subpattern)

\* the template literal without the parent's pattern
subpath_DropsParent(p, subpattern) == path(<< "/" >> \o subpattern)

\* paramsToPath.path, index.ts 79-81
subpath(p, subpattern) == path(p.arg \o << "/" >> \o subpattern)

\* calling the path object
call(p, params) == paramsToPath(p.parts, params)

(***************************************************************************)
(* The types of a pattern, index.ts 5-13 and 107-116, as the type checker    *)
(* evaluates them on a literal string type.  A template literal type         *)
(* `${infer A}text${infer B}` matches the first occurrence of text; a text   *)
(* that ends the template is matched at the end of the string.               *)
(***************************************************************************)

\* the index of the first c in s at or after position from, 0 when none
IndexOfFrom(s, c, from) ==
  LET found == { i \in from..Len(s) : s[i] = c }
  IN  IF found = {} THEN 0 ELSE CHOOSE i \in found : \A j \in found : i <= j

\* the index of the first '//' in s, 0 when none
IndexOfDoubleSlash(s) ==
  LET found == { i \in 1..(Len(s) - 1) : s[i] = "/" /\ s[i + 1] = "/" }
  IN  IF found = {} THEN 0 ELSE CHOOSE i \in found : \A j \in found : i <= j

RECURSIVE NormalizePattern(_)
\* type NormalizePattern<Pattern>
NormalizePattern(Pattern) ==
  LET i == IndexOfDoubleSlash(Pattern)
  IN  \* Case 1: '/' extends Pattern
      IF Pattern = << "/" >> THEN << "/" >>
      \* Case 2: Pattern extends `${infer Prefix}//${infer Suffix}`
      ELSE IF i # 0
      THEN NormalizePattern(SubSeq(Pattern, 1, i - 1) \o << "/" >>
                              \o SubSeq(Pattern, i + 2, Len(Pattern)))
      \* Case 3: Pattern extends `${infer Prefix}/`
      ELSE IF endsWith(Pattern, "/")
      THEN NormalizePattern(SubSeq(Pattern, 1, Len(Pattern) - 1))
      ELSE Pattern

RECURSIVE PathParamNames(_)
\* type PathParamNames<Pattern>: the union of literal types, as a set
PathParamNames(Pattern) ==
  LET slash == IndexOfFrom(Pattern, "/", 2)
      colon == IndexOfFrom(Pattern, ":", 1)
  IN  \* Pattern extends `:${infer Param}/${infer Rest}`
      IF startsWith(Pattern, ":") /\ slash # 0
      THEN { SubSeq(Pattern, 2, slash - 1) }
             \cup PathParamNames(SubSeq(Pattern, slash + 1, Len(Pattern)))
      \* Pattern extends `:${infer Param}`
      ELSE IF startsWith(Pattern, ":")
      THEN { Tail(Pattern) }
      \* Pattern extends `${infer _Prefix}:${infer Rest}`
      ELSE IF colon # 0
      THEN PathParamNames(SubSeq(Pattern, colon, Len(Pattern)))
      \* never
      ELSE {}

(***************************************************************************)
(* The inputs                                                               *)
(***************************************************************************)

SegmentLists(n) == UNION { [1..k -> Segments] : k \in 1..n }

\* every string of at most n segments
PatternsUpTo(n) == { join(ss, "/") : ss \in SegmentLists(n) }

Patterns == PatternsUpTo(MaxSegments)

NumSegments(s) == Len(split(s, "/"))

(***************************************************************************)
(* The state machine: one variable holding a path object                    *)
(***************************************************************************)

NoPath == [arg |-> <<>>, pattern |-> <<>>, parts |-> <<>>]

\* how obj was made: by path(), or by parent.path(subpattern) as the depth-th
\* composition of its chain
TopLevel == [how |-> "path", parent |-> NoPath, subpattern |-> <<>>, depth |-> 0]

NoRet == [op |-> "none", input |-> <<>>, out |-> return(<<>>)]

Init ==
  /\ pc = "start"
  /\ obj = NoPath
  /\ origin = TopLevel
  /\ ret = NoRet

\* const p = path(pattern)
Construct(pattern) ==
  /\ pc = "start"
  /\ LET r == path(pattern)
     IN  /\ ret' = [op |-> "path", input |-> pattern, out |-> r]
         /\ IF r.kind = "return"
            THEN /\ obj' = r.value
                 /\ pc' = "built"
            ELSE /\ obj' = obj
                 /\ pc' = "failed"
  /\ origin' = TopLevel

\* p = p.path(subpattern)
Compose(subpattern) ==
  /\ pc = "built"
  /\ LET r == subpath(obj, subpattern)
     IN  /\ ret' = [op |-> "subpath", input |-> subpattern, out |-> r]
         /\ IF r.kind = "return"
            THEN /\ obj' = r.value
                 /\ origin' = [how |-> "subpath", parent |-> obj,
                               subpattern |-> subpattern,
                               depth |-> origin.depth + 1]
                 /\ pc' = "built"
            ELSE /\ obj' = obj
                 /\ origin' = origin
                 /\ pc' = "failed"

\* p(params)
Call(params) ==
  /\ pc = "built"
  /\ ret' = [op |-> "call", input |-> params, out |-> call(obj, params)]
  /\ UNCHANGED <<pc, obj, origin>>

Next ==
  \/ \E pattern \in Patterns : Construct(pattern)
  \/ \E subpattern \in PatternsUpTo(MaxSegments - NumSegments(obj.arg)) :
       Compose(subpattern)
  \/ \E params \in ParamObjects : Call(params)

Spec == Init /\ [][Next]_vars

(***************************************************************************)
(* The same program on a wider set of literal patterns: a segment may hold   *)
(* a ':' after its first character.                                          *)
(***************************************************************************)

TypedSegments == Segments \cup { <<"a", ":", "b">> }

TypedSegmentLists(n) == UNION { [1..k -> TypedSegments] : k \in 1..n }

TypedPatternsUpTo(n) == { join(ss, "/") : ss \in TypedSegmentLists(n) }

NextTyped ==
  \/ \E pattern \in TypedPatternsUpTo(MaxSegments) : Construct(pattern)
  \/ \E subpattern \in TypedPatternsUpTo(MaxSegments - NumSegments(obj.arg)) :
       Compose(subpattern)
  \/ \E params \in ParamObjects : Call(params)

SpecTyped == Init /\ [][NextTyped]_vars

TypeOK ==
  /\ pc \in {"start", "built", "failed"}
  /\ ret.op \in {"none", "path", "subpath", "call"}
  /\ origin.how \in {"path", "subpath"}

(***************************************************************************)
(* Vocabulary of the properties                                             *)
(***************************************************************************)

Called == ret.op = "call"

Returned == ret.out.kind = "return"

Threw == ret.out.kind = "throw"

\* the names of the parameter segments of a segment sequence
ParamNames(parts) ==
  { parts[i].paramName : i \in { j \in 1..Len(parts) : parts[j].kind = "param" } }

\* the parameter names a params object does not give a string for
Unsatisfied(parts, params) ==
  { n \in ParamNames(parts) : Lookup(params, n).type # "string" }

\* a params object whose keys are exactly the parameter names, all strings
ExactParams(parts, params) ==
  /\ DOMAIN params = ParamNames(parts)
  /\ \A k \in DOMAIN params : params[k].type = "string"

Count(s, c) == Cardinality({ i \in 1..Len(s) : s[i] = c })

\* encodeURIComponent over the alphabet: '/', ':' and the line feed are
\* percent-encoded, letters are kept
encodeURIComponent(s) ==
  LET enc(c) == IF c = "/" THEN << "%", "2", "F" >>
                ELSE IF c = ":" THEN << "%", "3", "A" >>
                ELSE IF c = LF THEN << "%", "0", "A" >>
                ELSE << c >>
      RECURSIVE body(_)
      body(t) == IF t = <<>> THEN <<>> ELSE enc(Head(t)) \o body(Tail(t))
  IN  body(s)

\* the path a call is to return when every parameter value is escaped
EscapedPath(parts, params) ==
  LET texts == [ i \in 1..Len(parts) |->
                   IF parts[i].kind = "param"
                   THEN encodeURIComponent(params[parts[i].paramName].s)
                   ELSE parts[i].value ]
  IN  << "/" >> \o join(SelectSeq(texts, LAMBDA v : v # <<>>), "/")

\* the normalization the documentation states: '/' is kept; otherwise every
\* run of '/' becomes one '/' and then a trailing '/' with content before it
\* is removed
StatedNormalization(pattern) ==
  LET collapsed == ReplaceSlashRuns(pattern)
  IN  IF pattern = << "/" >> THEN pattern
      ELSE IF Len(collapsed) >= 2 /\ endsWith(collapsed, "/")
           THEN SubSeq(collapsed, 1, Len(collapsed) - 1)
           ELSE collapsed

\* the pattern the last construction handed to path()
AttemptedPattern ==
  IF ret.op = "path" THEN ret.input
  ELSE IF Returned THEN origin.parent.arg \o << "/" >> \o ret.input
  ELSE obj.arg \o << "/" >> \o ret.input

(***************************************************************************)
(* C1: a call emits every parameter value percent-encoded for one path      *)
(* segment: a '/' inside a value comes out as %2F, never as a separator, so  *)
(* the result has no more separators than the pattern has segments.          *)
(***************************************************************************)
C1_ParamValuesEscaped ==
  (Called /\ Returned) =>
    /\ ret.out.value = EscapedPath(obj.parts, ret.input)
    /\ Count(ret.out.value, "/") <= Len(obj.parts)

(***************************************************************************)
(* C2: a call whose params object lacks the name of a parameter segment, or *)
(* holds a non-string under it, throws the missing-parameter error, whose    *)
(* message carries that name and the stringified params object; it returns   *)
(* no path.                                                                  *)
(***************************************************************************)
C2_MissingOrInvalidParamThrows ==
  (Called /\ Unsatisfied(obj.parts, ret.input) # {}) =>
    /\ Threw
    /\ ret.out.error.message = "path param didn't exist on params object"
    /\ \E n \in Unsatisfied(obj.parts, ret.input) :
         ret.out.error.paramName = JSONstring(n)
    /\ ret.out.error.params = JSONobject(ret.input)

\* a call on a pattern with two parameters, one absent from the params
\* object and one present with a value that is not a string, has thrown
C2_Witness ==
  /\ Called
  /\ Threw
  /\ \E n \in ParamNames(obj.parts) : n \notin DOMAIN ret.input
  /\ \E n \in ParamNames(obj.parts) :
       n \in DOMAIN ret.input /\ ret.input[n] = NotAString

(***************************************************************************)
(* C3: a construction, by path() or by .path(), throws the malformed-       *)
(* pattern error exactly when the normalized pattern does not begin with     *)
(* '/', the message quoting the normalized pattern; so every path object     *)
(* has a pattern beginning with '/'.                                         *)
(***************************************************************************)
C3_MalformedPatternRejected ==
  /\ (ret.op \in {"path", "subpath"}) =>
       /\ Threw <=> ~startsWith(normalizePattern(AttemptedPattern), "/")
       /\ Threw =>
            /\ ret.out.error.message = "Paths must begin with slashes"
            /\ ret.out.error.pattern = JSONstring(normalizePattern(AttemptedPattern))
       /\ Returned => pc = "built" /\ obj = ret.out.value
  /\ (pc = "built") => startsWith(obj.pattern, "/")
  /\ (pc = "failed") => Threw

\* path() has thrown on a pattern that normalization changes, so the
\* message quotes the normalized text and not the argument
C3_Witness ==
  /\ ret.op = "path"
  /\ Threw
  /\ normalizePattern(ret.input) # ret.input
  /\ ret.out.error.pattern = JSONstring(normalizePattern(ret.input))

(***************************************************************************)
(* C4: the pattern field of every path object is the stated normalization   *)
(* of the pattern it was built from: '/' unchanged, otherwise runs of '/'    *)
(* collapsed and a trailing '/' with content before it removed.              *)
(***************************************************************************)
C4_PatternIsStatedNormalization ==
  (pc = "built") => obj.pattern = StatedNormalization(obj.arg)

(***************************************************************************)
(* C5: a call with exactly the parameter names, all strings, returns a      *)
(* string that begins with '/', has no two consecutive '/', and does not     *)
(* end with '/' unless it is '/'.                                            *)
(***************************************************************************)
C5_ResultWellFormed ==
  (Called /\ ExactParams(obj.parts, ret.input)) =>
    /\ Returned
    /\ startsWith(ret.out.value, "/")
    /\ \A i \in 1..(Len(ret.out.value) - 1) :
         ~(ret.out.value[i] = "/" /\ ret.out.value[i + 1] = "/")
    /\ endsWith(ret.out.value, "/") => ret.out.value = << "/" >>

(***************************************************************************)
(* C6: parent.path(s) has the pattern normalizePattern(parent's pattern as   *)
(* passed + '/' + s); for s not beginning with '/', composing with s and     *)
(* with '/' + s give the same pattern and the same outcome of every call;    *)
(* and composing '/a' onto the root path('/') gives the pattern '/a'.        *)
(***************************************************************************)
C6_CompositionJoinsAndNormalizes ==
  (pc = "built" /\ origin.how = "subpath") =>
    LET s == origin.subpattern
        twin == IF startsWith(s, "/") THEN Tail(s) ELSE << "/" >> \o s
        other == subpath(origin.parent, twin)
    IN  /\ obj.pattern = normalizePattern(origin.parent.arg \o << "/" >> \o s)
        /\ (~startsWith(s, "/") \/ ~startsWith(twin, "/")) =>
             /\ other.kind = "return"
             /\ other.value.pattern = obj.pattern
             /\ Called => call(other.value, ret.input) = ret.out
        /\ (origin.parent.arg = << "/" >> /\ s = << "/", "a" >>) =>
             obj.pattern = << "/", "a" >>

\* a path composed from a parent with a parameter and a subpattern without a
\* leading '/', holding a parameter of its own, has been called and returned
C6_Witness ==
  /\ pc = "built"
  /\ origin.how = "subpath"
  /\ ~startsWith(origin.subpattern, "/")
  /\ ParamNames(origin.parent.parts) # {}
  /\ ParamNames(patternParts(origin.subpattern)) # {}
  /\ Called
  /\ Returned

(***************************************************************************)
(* C7: after any chain of compositions the parameter names of the path       *)
(* object are the union of the parent's and the subpattern's: a call given   *)
(* exactly that union with string values returns, and a call missing any     *)
(* name of the union throws.                                                 *)
(***************************************************************************)
C7_ParamsAreUnion ==
  (pc = "built" /\ origin.how = "subpath") =>
    LET names == ParamNames(origin.parent.parts)
                   \cup ParamNames(patternParts(origin.subpattern))
    IN  /\ ParamNames(obj.parts) = names
        /\ Called =>
             /\ (/\ DOMAIN ret.input = names
                 /\ \A k \in names : ret.input[k].type = "string") => Returned
             /\ (\E n \in names : n \notin DOMAIN ret.input) => Threw

\* the second composition of a chain, the parent and the subpattern each
\* bringing a parameter the other lacks, called with the union and returned
C7_Witness ==
  /\ pc = "built"
  /\ origin.how = "subpath"
  /\ origin.depth >= 2
  /\ ParamNames(origin.parent.parts) \ ParamNames(patternParts(origin.subpattern)) # {}
  /\ ParamNames(patternParts(origin.subpattern)) \ ParamNames(origin.parent.parts) # {}
  /\ Called
  /\ DOMAIN ret.input = ParamNames(obj.parts)
  /\ Returned

(***************************************************************************)
(* C8 as stated: a call whose keys are not exactly the parameter set, one    *)
(* missing or one extra, throws the missing-parameter error.                 *)
(***************************************************************************)
C8_ExactKeysEnforced ==
  (Called /\ DOMAIN ret.input # ParamNames(obj.parts)) =>
    /\ Threw
    /\ ret.out.error.message = "path param didn't exist on params object"

(***************************************************************************)
(* C8 amended: a call throws the missing-parameter error exactly when some   *)
(* parameter name is absent or holds a non-string; a key outside the         *)
(* parameter set is not looked at, the call returning what it returns        *)
(* without that key.                                                         *)
(***************************************************************************)
C8_OnlyMissingKeysEnforced ==
  Called =>
    /\ Threw <=> Unsatisfied(obj.parts, ret.input) # {}
    /\ Threw => ret.out.error.message = "path param didn't exist on params object"
    /\ Returned =>
         ret.out = call(obj, [ k \in DOMAIN ret.input \cap ParamNames(obj.parts)
                                 |-> ret.input[k] ])

\* a call that gave every parameter and one key more has returned
C8_Witness ==
  /\ Called
  /\ Returned
  /\ ParamNames(obj.parts) # {}
  /\ DOMAIN ret.input \ ParamNames(obj.parts) # {}

(***************************************************************************)
(* C9: normalizePattern is idempotent: normalizing the normalized pattern    *)
(* of any construction, accepted or rejected, changes nothing.               *)
(***************************************************************************)
C9_NormalizeIdempotent ==
  /\ (pc = "built") => normalizePattern(obj.pattern) = obj.pattern
  /\ (ret.op \in {"path", "subpath"}) =>
       normalizePattern(normalizePattern(AttemptedPattern))
         = normalizePattern(AttemptedPattern)

\* a path object built from a pattern with a repeated and a trailing '/'
C9_Witness ==
  /\ pc = "built"
  /\ ret.op = "path"
  /\ endsWith(obj.arg, "/")
  /\ \E i \in 1..(Len(obj.arg) - 2) : obj.arg[i] = "/" /\ obj.arg[i + 1] = "/"
  /\ obj.pattern # obj.arg
  /\ Len(obj.pattern) > 1

\* the parts without the empty constants
WithoutEmpty(parts) ==
  SelectSeq(parts, LAMBDA part : part # constant(<<>>))

(***************************************************************************)
(* C10 as stated: decomposing the stored pattern gives exactly the stored    *)
(* parts.                                                                    *)
(***************************************************************************)
C10_PartsOfStoredPattern ==
  (pc = "built") => patternParts(obj.pattern) = obj.parts

(***************************************************************************)
(* C10 amended: the stored parts are the decomposition of the pattern as     *)
(* passed, before normalization; they agree with the decomposition of the    *)
(* stored pattern once the empty literal segments are dropped from both.     *)
(***************************************************************************)
C10_PartsAgreeUpToEmpty ==
  (pc = "built") =>
    /\ obj.parts = patternParts(obj.arg)
    /\ WithoutEmpty(obj.parts) = WithoutEmpty(patternParts(obj.pattern))

\* a path object with a parameter whose stored parts differ from the
\* decomposition of its stored pattern
C10_Witness ==
  /\ pc = "built"
  /\ ParamNames(obj.parts) # {}
  /\ patternParts(obj.pattern) # obj.parts

(***************************************************************************)
(* C11: the NormalizePattern type and the normalizePattern function give     *)
(* the same string for every literal pattern: the pattern field of a path    *)
(* object has the value its type says, and so has the pattern a rejected     *)
(* construction reports.                                                     *)
(***************************************************************************)
C11_TypeAndFunctionNormalizeAlike ==
  /\ (pc = "built") => obj.pattern = NormalizePattern(obj.arg)
  /\ (ret.op \in {"path", "subpath"}) =>
       normalizePattern(AttemptedPattern) = NormalizePattern(AttemptedPattern)

(***************************************************************************)
(* C12: the parameter names the PathParamNames type derives from the pattern *)
(* text are, for every pattern, the names of the parameter segments that     *)
(* patternParts produced: none dropped, none invented.                       *)
(***************************************************************************)
C12_TypeAndPartsNameSameParams ==
  (pc = "built") => PathParamNames(obj.arg) = ParamNames(obj.parts)

====
